---- MODULE Spec2Model ----
(***************************************************************************)
(* A model of src/src/scraper.py (class BlogScraper): the orchestrator     *)
(* scrape_all_companies, the fetcher _make_request, the listing scanner    *)
(* _parse_generic_blog, the post extractor _extract_post_info, the date    *)
(* normaliser _parse_date and the recency predicate _is_recent_post.       *)
(*                                                                         *)
(* Text is modelled by TLA+ strings, which TLC treats as sequences of      *)
(* one-character strings (Len, SubSeq, Head, Tail and \o apply to them).   *)
(* An HTML element is a record [name, attrs, text, string, kids]: the tag  *)
(* name, the attribute dictionary, get_text(), .string (<<>> when bs4      *)
(* gives None, <<s>> otherwise) and the descendants in document order.     *)
(* Python's None is the empty tuple <<>> wherever the other values are     *)
(* records; an optional string is <<>> or <<s>>.                           *)
(***************************************************************************)
EXTENDS Integers, Sequences, FiniteSets, TLC

VARIABLES
    pc,             \* control point of the operation in progress
    now,            \* datetime.now() read at scraper.py:75
    days_back,      \* argument of scrape_all_companies
    cutoff_date,    \* scraper.py:75
    idx,            \* position of the for loop of scraper.py:77 in self.companies
    response,       \* what _make_request returned for the current site
    results,        \* the dict built at scraper.py:74-90
    trace,          \* the GETs issued and the sleeps taken, in order
    html,           \* the document handed to _parse_generic_blog
    base_url,       \* the url argument of the parser / extractor
    post_elements,  \* scraper.py:168-177
    strategy,       \* index of the selector that produced post_elements (0: none yet)
    k,              \* position of the for loop of scraper.py:179 in post_elements
    posts,          \* scraper.py:152, the list being built
    post,           \* the last value returned by _extract_post_info
    kept,           \* positions of post_elements whose post was appended
    date_text,      \* argument of _parse_date
    parsed          \* return value of _parse_date

vars == <<pc, now, days_back, cutoff_date, idx, response, results, trace, html,
          base_url, post_elements, strategy, k, posts, post, kept, date_text, parsed>>

None == <<>>

----------------------------------------------------------------------------
(* Strings *)

Min(a, b) == IF a <= b THEN a ELSE b

Char(s, i) == SubSeq(s, i, i)

\* Python s[n:]
Drop(s, n) == IF n >= Len(s) THEN "" ELSE SubSeq(s, n + 1, Len(s))

\* Python s[:n]
Take(s, n) == IF n <= 0 THEN "" ELSE SubSeq(s, 1, Min(n, Len(s)))

UpperChars == "ABCDEFGHIJKLMNOPQRSTUVWXYZ"
LowerChars == "abcdefghijklmnopqrstuvwxyz"
DigitChars == "0123456789"

IsIn(c, alphabet) == \E i \in 1..Len(alphabet) : Char(alphabet, i) = c

IndexIn(c, alphabet) == CHOOSE i \in 1..Len(alphabet) : Char(alphabet, i) = c

IsSpace(c) == c \in {" ", "\t", "\n", "\r"}
IsDigit(c) == IsIn(c, DigitChars)
IsAlpha(c) == IsIn(c, UpperChars) \/ IsIn(c, LowerChars)

LowerChar(c) == IF IsIn(c, UpperChars) THEN Char(LowerChars, IndexIn(c, UpperChars)) ELSE c

RECURSIVE Lower(_)
Lower(s) == IF s = "" THEN "" ELSE LowerChar(Head(s)) \o Lower(Tail(s))

RECURSIVE LStrip(_)
LStrip(s) == IF s # "" /\ IsSpace(Head(s)) THEN LStrip(Tail(s)) ELSE s

RECURSIVE RStrip(_)
RStrip(s) ==
    IF s # "" /\ IsSpace(Char(s, Len(s))) THEN RStrip(Take(s, Len(s) - 1)) ELSE s

\* str.strip()
Strip(s) == RStrip(LStrip(s))

StartsWith(s, p) == Len(s) >= Len(p) /\ Take(s, Len(p)) = p

\* re.search of a literal: sub occurs somewhere in s
Contains(s, sub) == \E i \in 0..(Len(s) - Len(sub)) : StartsWith(Drop(s, i), sub)

IsKind(c, kind) ==
    CASE kind = "space" -> IsSpace(c)
      [] kind = "digit" -> IsDigit(c)
      [] kind = "alpha" -> IsAlpha(c)

\* length of the longest prefix of s whose characters are all of the kind
RECURSIVE RunLen(_, _)
RunLen(s, kind) == IF s # "" /\ IsKind(Head(s), kind) THEN 1 + RunLen(Tail(s), kind) ELSE 0

RECURSIVE ToInt(_)
ToInt(s) == IF s = "" THEN 0
            ELSE 10 * ToInt(Take(s, Len(s) - 1)) + (IndexIn(Char(s, Len(s)), DigitChars) - 1)

\* re.sub(r'\s+', ' ', s): every run of whitespace becomes one space
RECURSIVE CollapseSpace(_)
CollapseSpace(s) ==
    IF s = "" THEN ""
    ELSE IF IsSpace(Head(s)) THEN " " \o CollapseSpace(Drop(s, RunLen(s, "space")))
    ELSE Head(s) \o CollapseSpace(Tail(s))

\* n copies of s
RECURSIVE Rep(_, _)
Rep(s, n) ==
    IF n <= 0 THEN ""
    ELSE LET half == Rep(s, n \div 2)
         IN  half \o half \o (IF n % 2 = 1 THEN s ELSE "")

----------------------------------------------------------------------------
(* datetime: a value is [ord, sec, us], the proleptic Gregorian ordinal of  *)
(* the day (datetime.toordinal), the second of the day and the microsecond; *)
(* datetime orders its values by exactly this triple.                       *)

IsLeap(y) == y % 4 = 0 /\ (y % 100 # 0 \/ y % 400 = 0)

DaysInMonth(y, m) ==
    IF m = 2 THEN (IF IsLeap(y) THEN 29 ELSE 28)
    ELSE IF m \in {4, 6, 9, 11} THEN 30 ELSE 31

RECURSIVE DaysBeforeMonth(_, _)
DaysBeforeMonth(y, m) ==
    IF m <= 1 THEN 0 ELSE DaysBeforeMonth(y, m - 1) + DaysInMonth(y, m - 1)

DaysBeforeYear(y) == (y - 1) * 365 + (y - 1) \div 4 - (y - 1) \div 100 + (y - 1) \div 400

Ymd2Ord(y, m, d) == DaysBeforeYear(y) + DaysBeforeMonth(y, m) + d

ValueError == [exc |-> "ValueError"]

\* datetime(y, m, d, H, M, S, us): the value, or ValueError when a field is out of range
Datetime(y, m, d, H, M, S, us) ==
    IF /\ y \in 1..9999
       /\ m \in 1..12
       /\ d >= 1 /\ d <= DaysInMonth(y, m)
       /\ H \in 0..23 /\ M \in 0..59 /\ S \in 0..59
    THEN [ord |-> Ymd2Ord(y, m, d), sec |-> (H * 60 + M) * 60 + S, us |-> us]
    ELSE ValueError

\* a >= b on datetimes
DtGE(a, b) ==
    \/ a.ord > b.ord
    \/ a.ord = b.ord /\ a.sec > b.sec
    \/ a.ord = b.ord /\ a.sec = b.sec /\ a.us >= b.us

\* dt - timedelta(days=n)
MinusDays(dt, n) == [dt EXCEPT !.ord = @ - n]

----------------------------------------------------------------------------
(* datetime.strptime, for the directives and literals of date_formats.     *)
(* _strptime turns the format into a regular expression compiled with      *)
(* re.IGNORECASE: a directive becomes a group, a blank becomes \s+, every   *)
(* other character stands for itself; the expression must match at the     *)
(* start of the text and nothing may remain after it.  In each of the      *)
(* formats a directive is followed by a literal or by the end, so a        *)
(* numeric group matches exactly when it covers the whole run of digits at *)
(* its place, and a month name exactly when it covers the whole run of     *)
(* letters.                                                                *)

MonthNames ==
    << "january", "february", "march", "april", "may", "june", "july", "august",
       "september", "october", "november", "december" >>

\* calendar.month_abbr of the C locale
MonthAbbr(i) == Take(MonthNames[i], 3)

\* the group of a numeric directive: %Y \d\d\d\d, %m 1[0-2]|0[1-9]|[1-9],
\* %d 3[01]|[12]\d|0[1-9]|[1-9], %H 2[0-3]|[0-1]\d|\d, %M [0-5]\d|\d,
\* %S 6[0-1]|[0-5]\d|\d
NumOk(dir, tok) ==
    CASE dir = "Y" -> Len(tok) = 4
      [] dir = "m" -> Len(tok) \in {1, 2} /\ ToInt(tok) \in 1..12
      [] dir = "d" -> Len(tok) \in {1, 2} /\ ToInt(tok) \in 1..31
      [] dir = "H" -> Len(tok) \in {1, 2} /\ ToInt(tok) \in 0..23
      [] dir = "M" -> Len(tok) \in {1, 2} /\ ToInt(tok) \in 0..59
      [] dir = "S" -> Len(tok) \in {1, 2} /\ ToInt(tok) \in 0..61

\* the fields found by matching fmt against s, or ValueError
RECURSIVE StrpMatch(_, _, _)
StrpMatch(fmt, s, acc) ==
    IF fmt = "" THEN (IF s = "" THEN acc ELSE ValueError)
    ELSE IF Head(fmt) = "%" THEN
        LET dir  == Char(fmt, 2)
            rest == Drop(fmt, 2)
        IN  IF dir \in {"B", "b"} THEN
                LET n    == RunLen(s, "alpha")
                    word == Lower(Take(s, n))
                    hits == {i \in 1..12 :
                               word = (IF dir = "B" THEN MonthNames[i] ELSE MonthAbbr(i))}
                IN  IF hits = {} THEN ValueError
                    ELSE StrpMatch(rest, Drop(s, n), [acc EXCEPT !.m = CHOOSE i \in hits : TRUE])
            ELSE IF dir = "d" /\ Len(s) >= 2 /\ Head(s) = " " /\ IsDigit(Char(s, 2))
                    /\ Char(s, 2) # "0" /\ ~(Len(s) >= 3 /\ IsDigit(Char(s, 3))) THEN
                \* the last alternative of %d, a blank and one digit
                StrpMatch(rest, Drop(s, 2), [acc EXCEPT !.d = ToInt(Char(s, 2))])
            ELSE
                LET n   == RunLen(s, "digit")
                    tok == Take(s, n)
                IN  IF NumOk(dir, tok)
                    THEN StrpMatch(rest, Drop(s, n), [acc EXCEPT ![dir] = ToInt(tok)])
                    ELSE ValueError
    ELSE IF Head(fmt) = " " THEN
        (IF RunLen(s, "space") >= 1
         THEN StrpMatch(Tail(fmt), Drop(s, RunLen(s, "space")), acc)
         ELSE ValueError)
    ELSE IF s # "" /\ LowerChar(Head(s)) = LowerChar(Head(fmt))
         THEN StrpMatch(Tail(fmt), Tail(s), acc)
         ELSE ValueError

\* datetime.strptime(s, fmt): a datetime, or ValueError
Strptime(s, fmt) ==
    LET f == StrpMatch(fmt, s, [Y |-> 1900, m |-> 1, d |-> 1, H |-> 0, M |-> 0, S |-> 0])
    IN  IF f = ValueError THEN ValueError
        ELSE Datetime(f.Y, f.m, f.d, f.H, f.M, f.S, 0)

----------------------------------------------------------------------------
(* _parse_date *)

date_formats ==
    << "%Y-%m-%d",
       "%Y-%m-%dT%H:%M:%S",
       "%Y-%m-%dT%H:%M:%SZ",
       "%B %d, %Y",
       "%b %d, %Y",
       "%d %B %Y",
       "%d %b %Y",
       "%m/%d/%Y",
       "%d/%m/%Y" >>

\* _parse_date without its try/except: the first ValueError escapes
TryFormatsNoCatch(text, i) == Strptime(text, date_formats[i])

\* the for loop of _parse_date from format i on; a ValueError moves to the next
\* format, the first value parsed is returned, None after the last format
RECURSIVE TryFormats(_, _)
TryFormats(text, i) ==
    IF i > Len(date_formats) THEN None
    ELSE IF Strptime(text, date_formats[i]) = ValueError THEN TryFormats(text, i + 1)
    ELSE Strptime(text, date_formats[i])

ParseDate(text) ==
    IF text = "" THEN None
    ELSE TryFormats(Strip(text), 1)

\* _is_recent_post comparing with > instead of >=
IsRecentPostStrict(post_date, cutoff) ==
    IF post_date = None THEN TRUE
    ELSE DtGE(post_date, cutoff) /\ post_date # cutoff

\* _is_recent_post (a datetime is never falsy)
IsRecentPost(post_date, cutoff) ==
    IF post_date = None THEN TRUE
    ELSE DtGE(post_date, cutoff)

----------------------------------------------------------------------------
(* HTML elements and the bs4 queries the scraper makes on them *)

\* a tag whose only child is its text
Leaf(name, attrs, text) ==
    [name |-> name, attrs |-> attrs, text |-> text,
     string |-> IF text = "" THEN <<>> ELSE <<text>>, kids |-> <<>>]

RECURSIVE ConcatText(_)
ConcatText(nodes) == IF nodes = <<>> THEN "" ELSE Head(nodes).text \o ConcatText(Tail(nodes))

\* a tag whose children are the tags of kids, with no text of its own
Elem(name, attrs, kids) ==
    [name |-> name, attrs |-> attrs, text |-> ConcatText(kids),
     string |-> IF Len(kids) = 1 THEN kids[1].string ELSE <<>>, kids |-> kids]

NoAttrs == <<>>

HasAttr(n, a) == a \in DOMAIN n.attrs

\* the CSS attribute selector [class*="needle"]
ClassContains(n, needle) == HasAttr(n, "class") /\ Contains(n.attrs["class"], needle)

\* class_=re.compile(r'w1|w2|...', re.I): some word occurs in the class attribute
ClassMatches(n, words) ==
    HasAttr(n, "class") /\ \E w \in words : Contains(Lower(n.attrs["class"]), w)

MinOf(S) == CHOOSE i \in S : \A j \in S : i <= j

\* find / select_one: the first descendant, in document order, among those at the
\* positions of S; None when there is none
FirstOf(element, S) == IF S = {} THEN None ELSE element.kids[MinOf(S)]

----------------------------------------------------------------------------
(* urllib.parse.urljoin, for a base of the form scheme://host[/path] and a  *)
(* url that is empty, absolute (scheme:...), host-relative (/path) or a    *)
(* plain relative path without dot segments, query or fragment.            *)

\* str.find, counted from 1: the first position at which sub occurs in s, 0 when
\* it does not occur
IndexOf(s, sub) ==
    IF Contains(s, sub)
    THEN 1 + MinOf({i \in 0..(Len(s) - Len(sub)) : StartsWith(Drop(s, i), sub)})
    ELSE 0

\* position of the last "/" of s, 0 when there is none
RECURSIVE LastSlash(_)
LastSlash(s) ==
    IF s = "" THEN 0
    ELSE IF Char(s, Len(s)) = "/" THEN Len(s)
    ELSE LastSlash(Take(s, Len(s) - 1))

\* urlparse(url).scheme is non-empty: letters before the first ":"
HasScheme(url) ==
    LET n == RunLen(url, "alpha") IN n >= 1 /\ Len(url) > n /\ Char(url, n + 1) = ":"

\* scheme://host of the base
Origin(base) ==
    LET p    == IndexOf(base, "://")
        rest == Drop(base, p + 2)
        q    == IndexOf(rest, "/")
    IN  IF q = 0 THEN base ELSE Take(base, p + 2 + q - 1)

UrlJoin(base, url) ==
    IF url = "" THEN base
    ELSE IF HasScheme(url) THEN url
    ELSE IF Head(url) = "/" THEN Origin(base) \o url
    ELSE LET path == Drop(base, Len(Origin(base)))
         IN  Origin(base) \o (IF path = "" THEN "/" ELSE Take(path, LastSlash(path))) \o url

----------------------------------------------------------------------------
(* _extract_post_info *)

NoTitleFound == "No title found"
NoSummary == "No summary available"
Ellipsis == "..."
SummaryLimit == 200

\* what each entry of title_selectors finds in the element (find / select_one)
TitleFound(element, i) ==
    LET K == DOMAIN element.kids
    IN  CASE i = 1 -> FirstOf(element, {j \in K : element.kids[j].name \in {"h1", "h2", "h3", "h4"}})
          [] i = 2 -> FirstOf(element, {j \in K : element.kids[j].name = "a"})
          [] i = 3 -> FirstOf(element, {j \in K : ClassContains(element.kids[j], "title")})
          [] i = 4 -> FirstOf(element, {j \in K : ClassContains(element.kids[j], "headline")})

NumTitleSelectors == 4

\* the for loop of scraper.py:211-217 from selector i on: title_elem is assigned at
\* each turn, and the loop stops at the first one found with text
RECURSIVE TitleElem(_, _)
TitleElem(element, i) ==
    LET title_elem == TitleFound(element, i)
    IN  IF title_elem # None /\ Strip(title_elem.text) # "" THEN title_elem
        ELSE IF i = NumTitleSelectors THEN title_elem
        ELSE TitleElem(element, i + 1)

\* scraper.py:219-222
TitleOf(title_elem) ==
    LET title == IF title_elem # None THEN Strip(title_elem.text) ELSE NoTitleFound
    IN  Strip(CollapseSpace(title))

\* the link taken from the first anchor with an href, whatever the title element is
LinkElemAnyLink(element, title_elem) ==
    FirstOf(element, {j \in DOMAIN element.kids :
                         element.kids[j].name = "a" /\ HasAttr(element.kids[j], "href")})

\* scraper.py:225-229
LinkElem(element, title_elem) ==
    IF title_elem # None /\ title_elem.name = "a" THEN title_elem
    ELSE FirstOf(element, {j \in DOMAIN element.kids :
                              element.kids[j].name = "a" /\ HasAttr(element.kids[j], "href")})

\* scraper.py:231-234
LinkOf(link_elem, base) ==
    IF link_elem # None /\ HasAttr(link_elem, "href") /\ link_elem.attrs["href"] # ""
    THEN UrlJoin(base, link_elem.attrs["href"])
    ELSE base

\* the date element found by tag name alone, without the class filter
DateElemAnyClass(element) ==
    FirstOf(element, {j \in DOMAIN element.kids :
                         element.kids[j].name \in {"time", "span", "div"}})

\* scraper.py:237
DateElem(element) ==
    FirstOf(element, {j \in DOMAIN element.kids :
                         /\ element.kids[j].name \in {"time", "span", "div"}
                         /\ ClassMatches(element.kids[j], {"date", "time", "published"})})

\* scraper.py:238-242
DateOf(date_elem) ==
    IF date_elem # None
    THEN LET dtext == IF HasAttr(date_elem, "datetime") /\ date_elem.attrs["datetime"] # ""
                      THEN date_elem.attrs["datetime"]
                      ELSE Strip(date_elem.text)
         IN  ParseDate(dtext)
    ELSE None

\* scraper.py:245-248
SummaryElem(element) ==
    LET K == DOMAIN element.kids
        byClass == FirstOf(element, {j \in K :
                            /\ element.kids[j].name \in {"p", "div"}
                            /\ ClassMatches(element.kids[j], {"summary", "excerpt", "description"})})
    IN  IF byClass # None THEN byClass
        ELSE FirstOf(element, {j \in K : element.kids[j].name = "p"})

\* scraper.py:250
SummaryOf(summary_elem) ==
    IF summary_elem # None
    THEN Take(Strip(summary_elem.text), SummaryLimit) \o Ellipsis
    ELSE NoSummary

\* the dictionary returned at scraper.py:252-259, without 'company' and 'scraped_at',
\* which nothing in the scraper reads
ExtractPostInfo(element, base) ==
    LET title_elem == TitleElem(element, 1)
    IN  [title   |-> TitleOf(title_elem),
         url     |-> LinkOf(LinkElem(element, title_elem), base),
         date    |-> DateOf(DateElem(element)),
         summary |-> SummaryOf(SummaryElem(element))]

----------------------------------------------------------------------------
(* _parse_generic_blog *)

\* a document is the sequence of its top-level elements; soup.select and
\* soup.find_all visit every element in document order, a parent before its
\* descendants
RECURSIVE AllElements(_)
AllElements(doc) ==
    IF doc = <<>> THEN <<>>
    ELSE <<Head(doc)>> \o Head(doc).kids \o AllElements(Tail(doc))

selectors ==
    << "article",
       "[class*=\"post\"]",
       "[class*=\"article\"]",
       "[class*=\"story\"]",
       "[class*=\"entry\"]",
       "[class*=\"item\"]",
       "[class*=\"card\"]" >>

\* whether element n matches the CSS selector: a type selector, or [class*="..."]
SelectorMatches(selector, n) ==
    IF StartsWith(selector, "[class*=\"")
    THEN ClassContains(n, SubSeq(selector, 10, Len(selector) - 2))
    ELSE n.name = selector

\* soup.select(selector)
Select(doc, selector) == SelectSeq(AllElements(doc), LAMBDA n : SelectorMatches(selector, n))

\* re.compile(r'.+').search(s): some character other than a newline
DotPlus(s) == \E i \in 1..Len(s) : Char(s, i) # "\n"

\* soup.find_all(['div'], string=re.compile(r'.+'))
FindAllDivWithString(doc) ==
    SelectSeq(AllElements(doc),
              LAMBDA n : n.name = "div" /\ n.string # <<>> /\ DotPlus(n.string[1]))

\* a slice that does not cut
TakeSeqNoCap(seq, n) == seq

\* Python seq[:n]
TakeSeq(seq, n) == SubSeq(seq, 1, Min(n, Len(seq)))

CandidateLimit == 15
FallbackLimit == 10
TitleMinLen == 10

\* the selector loop without its break: the last strategy that matches wins
RECURSIVE SelectFromLastMatch(_, _)
SelectFromLastMatch(doc, i) ==
    IF i > Len(selectors) THEN [strategy |-> 0, elements |-> <<>>]
    ELSE LET later == SelectFromLastMatch(doc, i + 1)
         IN  IF later.elements # <<>> THEN later
             ELSE [strategy |-> IF Select(doc, selectors[i]) # <<>> THEN i ELSE 0,
                   elements |-> TakeSeq(Select(doc, selectors[i]), CandidateLimit)]

\* the for loop of scraper.py:169-173 from selector i on
RECURSIVE SelectFrom(_, _)
SelectFrom(doc, i) ==
    IF i > Len(selectors) THEN [strategy |-> 0, elements |-> <<>>]
    ELSE LET elements == Select(doc, selectors[i])
         IN  IF elements # <<>>
             THEN [strategy |-> i, elements |-> TakeSeq(elements, CandidateLimit)]
             ELSE SelectFrom(doc, i + 1)

Fallback == Len(selectors) + 1

\* scraper.py:168-177: the candidates and the strategy they come from
PostElements(doc) ==
    LET found == SelectFrom(doc, 1)
    IN  IF found.elements = <<>>
        THEN [strategy |-> Fallback,
              elements |-> TakeSeq(FindAllDivWithString(doc), FallbackLimit)]
        ELSE found

\* the condition of scraper.py:181
PassesNoiseFilter(p) == p # None /\ p.title # "" /\ Len(p.title) > TitleMinLen

\* the conditions of scraper.py:181-182 together
Keeps(p, cutoff) == PassesNoiseFilter(p) /\ IsRecentPost(p.date, cutoff)

\* the for loop of scraper.py:179-183 from candidate j on.  fault is <<>>, or <<f>>
\* when an exception is raised on reaching candidate f (f = 0: before the loop, in
\* the BeautifulSoup constructor or a query); scraper.py:185 catches it and the
\* posts appended so far are returned
RECURSIVE ScanFrom(_, _, _, _, _, _)
ScanFrom(elements, j, base, cutoff, fault, acc) ==
    IF j > Len(elements) \/ fault = <<j>> THEN acc
    ELSE LET p == ExtractPostInfo(elements[j], base)
         IN  ScanFrom(elements, j + 1, base, cutoff, fault,
                      IF Keeps(p, cutoff) THEN Append(acc, p) ELSE acc)

ParseGenericBlog(doc, base, cutoff, fault) ==
    IF fault = <<0>> THEN <<>>
    ELSE ScanFrom(PostElements(doc).elements, 1, base, cutoff, fault, <<>>)

----------------------------------------------------------------------------
(* Inputs *)

SlashParts == {"03", "04", "13", "31", "2", "0", "00"}

SlashTexts == {a \o "/" \o b \o "/" \o y : a \in SlashParts, b \in SlashParts, y \in {"2024", "24"}}

IsoTexts ==
    { "2024-01-01", "2024-1-5", "2024-02-30", "2024-02-29", "2023-02-29", "2024-01- 5",
      "0000-01-01", "2024-13-01", "2024-00-10", "24-01-01", "20240101", "2024-01-01 extra",
      "2024-01-01T10:00:00", "2024-01-01T10:00:00Z", "2024-01-01t10:00:00z",
      "2024-01-01T24:00:00", "2024-01-01T10:00:60", "2024-01-01T9:5:7",
      "2024-01-01T10:00:00+00:00", "2024-01-01T10:00:00.123", "2024-01-01 10:00:00",
      "2024-01-01T10:00", "2024-12-31T23:59:59Z" }

NamedTexts ==
    { "January 5, 2024", "Jan 5, 2024", "JANUARY 05, 2024", "may 5, 2024", "May 05, 2024",
      "March  5,  2024", "March 5,2024", "Sept 5, 2024", "Sep 5, 2024", "Marchx 5, 2024",
      "5 January 2024", "5 Jan 2024", "31 April 2024", "29 feb 2024", "05 DECEMBER 2023",
      "Jan 1", "January 2024", "Jan 32, 2024", "June 30, 2024", "Jun 31, 2024" }

OtherTexts ==
    { "", "   ", " 2024-03-09 ", "\n2024-03-09\t", " 03/04/2024", "yesterday", "3 days ago",
      "Jan 5, 2024 ", "-", "2024", "/" }

DateTexts == SlashTexts \cup IsoTexts \cup NamedTexts \cup OtherTexts

\* readings of the clock
Nows ==
    { Datetime(2024, 1, 8, 0, 0, 0, 0),
      Datetime(2024, 1, 8, 12, 30, 0, 250000),
      Datetime(2024, 3, 1, 9, 0, 0, 1) }

DefaultDaysBack == 7
RateLimitDelay == 1

\* the variables an operation does not use
IdleRun == /\ idx = 0 /\ response = None /\ results = <<>> /\ trace = <<>>
IdleClock == /\ now = None /\ days_back = 0 /\ cutoff_date = None
IdleScan == /\ html = <<>> /\ post_elements = <<>> /\ strategy = 0 /\ k = 0
            /\ posts = <<>> /\ kept = <<>>
IdleDate == /\ date_text = "" /\ parsed = None

----------------------------------------------------------------------------
(* _parse_date applied to a text *)

InitDate ==
    /\ pc = "parse_date"
    /\ date_text \in DateTexts
    /\ parsed = None
    /\ base_url = "" /\ post = None
    /\ IdleRun /\ IdleClock /\ IdleScan

ParseDateCall ==
    /\ pc = "parse_date"
    /\ parsed' = ParseDate(date_text)
    /\ pc' = "date_returned"
    /\ UNCHANGED <<now, days_back, cutoff_date, idx, response, results, trace, html,
                   base_url, post_elements, strategy, k, posts, post, kept, date_text>>

NextDate == ParseDateCall

SpecDate == InitDate /\ [][NextDate]_vars

(* C9: _parse_date never raises: whatever the text, it returns None or a    *)
(* datetime, never an exception.  It returns None for the empty text and   *)
(* when no format of date_formats matches the whole stripped text, and     *)
(* otherwise the value of the first format, in list order, that matches;   *)
(* a text that is valid both as month/day/year and as day/month/year is    *)
(* read as month/day/year.                                                 *)
C9_ParseDateFirstMatch ==
    pc = "date_returned" =>
        LET text == Strip(date_text)
            M    == {i \in 1..Len(date_formats) : Strptime(text, date_formats[i]) # ValueError}
        IN  /\ parsed # ValueError
            /\ (date_text = "" \/ M = {}) => parsed = None
            /\ (date_text # "" /\ M # {}) =>
                   /\ parsed # None
                   /\ parsed = Strptime(text, date_formats[MinOf(M)])
            /\ (/\ Strptime(text, "%m/%d/%Y") # ValueError
                /\ Strptime(text, "%d/%m/%Y") # ValueError)
               => parsed = Strptime(text, "%m/%d/%Y")
            /\ date_text = "03/04/2024" => parsed = Datetime(2024, 3, 4, 0, 0, 0, 0)
            /\ date_text = "13/04/2024" => parsed = Datetime(2024, 4, 13, 0, 0, 0, 0)

\* a text valid under both slash formats has been parsed
C9_Witness ==
    /\ pc = "date_returned"
    /\ date_text = "03/04/2024"
    /\ parsed = Datetime(2024, 3, 4, 0, 0, 0, 0)

----------------------------------------------------------------------------
(* _extract_post_info applied to an element *)

MaxKids == 2

ExtractLeaves ==
    { Leaf("h2", NoAttrs, "Example Title Here"),
      Leaf("h3", NoAttrs, "  \n "),
      Leaf("a", "href" :> "/x", "read"),
      Leaf("a", "href" :> "https://other.test/y", "An anchor  with a\nlong headline"),
      Leaf("a", NoAttrs, "Anchor without any href"),
      Leaf("a", "href" :> "", "more"),
      Leaf("a", "href" :> "story.html", ""),
      Leaf("a", ("class" :> "headline") @@ ("href" :> "/h"), ""),
      Leaf("span", "class" :> "post-title", "Span title text here"),
      Leaf("time", "datetime" :> "2024-01-01", "Jan 1"),
      Leaf("time", ("class" :> "published") @@ ("datetime" :> "2024-01-05"), "Jan 5"),
      Leaf("span", "class" :> "Post-Date", " Jan 5, 2024 "),
      Leaf("p", NoAttrs, "Some summary text."),
      Leaf("p", "class" :> "excerpt", Rep("x", SummaryLimit + 50)),
      Leaf("p", NoAttrs, Rep("y", SummaryLimit)),
      Leaf("div", "class" :> "Description", " " \o Rep("z", SummaryLimit + 1) \o " "),
      Leaf("p", NoAttrs, "") }

RECURSIVE SeqsUpTo(_, _)
SeqsUpTo(S, n) ==
    IF n = 0 THEN {<<>>}
    ELSE LET shorter == SeqsUpTo(S, n - 1)
         IN  shorter \cup {Append(q, x) : q \in shorter, x \in S}

BaseUrls ==
    { "https://site.test",
      "https://venturebeat.com/ai/",
      "https://www.theverge.com/ai-artificial-intelligence" }

InitExtract ==
    /\ pc = "extract"
    /\ post_elements \in {<<Elem("article", NoAttrs, kids)>> : kids \in SeqsUpTo(ExtractLeaves, MaxKids)}
    /\ k = 1
    /\ base_url \in BaseUrls
    /\ post = None
    /\ html = <<>> /\ strategy = 0 /\ posts = <<>> /\ kept = <<>>
    /\ IdleRun /\ IdleClock /\ IdleDate

ExtractCall ==
    /\ pc = "extract"
    /\ post' = ExtractPostInfo(post_elements[k], base_url)
    /\ pc' = "extracted"
    /\ UNCHANGED <<now, days_back, cutoff_date, idx, response, results, trace, html,
                   base_url, post_elements, strategy, k, posts, kept, date_text, parsed>>

NextExtract == ExtractCall

SpecExtract == InitExtract /\ [][NextExtract]_vars

(* C5: when a summary element was found, the summary carries the ellipsis  *)
(* only when the text was cut: a stripped text of more than 200 characters *)
(* gives its first 200 characters followed by "...", and a text of 200     *)
(* characters or fewer gives the text itself.                              *)
C5_EllipsisOnlyWhenCut ==
    (pc = "extracted" /\ SummaryElem(post_elements[k]) # None) =>
        LET text == Strip(SummaryElem(post_elements[k]).text)
        IN  IF Len(text) > 200
            THEN post.summary = SubSeq(text, 1, 200) \o "..."
            ELSE post.summary = text

(* C8: the url of an extracted post is the href of the chosen title        *)
(* element when that element is an anchor, otherwise the href of the first *)
(* anchor of the element that has one, resolved against base_url; without  *)
(* such a link it is base_url itself; it is never empty.                   *)
C8_UrlFirstMatchOrBase ==
    pc = "extracted" =>
        LET el      == post_elements[k]
            te      == TitleElem(el, 1)
            anchors == {j \in DOMAIN el.kids : el.kids[j].name = "a" /\ "href" \in DOMAIN el.kids[j].attrs}
            href    == IF te # None /\ te.name = "a"
                       THEN (IF "href" \in DOMAIN te.attrs THEN <<te.attrs["href"]>> ELSE <<>>)
                       ELSE (IF anchors # {} THEN <<el.kids[MinOf(anchors)].attrs["href"]>> ELSE <<>>)
        IN  /\ post.url # ""
            /\ href = <<>> => post.url = base_url
            /\ href # <<>> => post.url = UrlJoin(base_url, href[1])
            /\ (href = <<"/x">> /\ base_url = "https://site.test") => post.url = "https://site.test/x"
            /\ (href = <<"story.html">> /\ base_url = "https://venturebeat.com/ai/")
                   => post.url = "https://venturebeat.com/ai/story.html"
            /\ href = <<"https://other.test/y">> => post.url = "https://other.test/y"

\* the title element is an anchor without href, another anchor has one, and the
\* url fell back to base_url
C8_Witness ==
    /\ pc = "extracted"
    /\ Len(post_elements[k].kids) = 2
    /\ post_elements[k].kids[1] = Leaf("a", NoAttrs, "Anchor without any href")
    /\ post_elements[k].kids[2] = Leaf("a", "href" :> "/x", "read")
    /\ post.url = base_url

----------------------------------------------------------------------------
(* _parse_generic_blog run on a document, one candidate at a time *)

MaxRun == 16

TitleH2 == Leaf("h2", NoAttrs, "Example Title Here")
ReadLink == Leaf("a", "href" :> "/x", "read")
SummaryP == Leaf("p", NoAttrs, "Some summary text.")

\* the article of the scenario: its <time> has a datetime and no class
ArticlePlainTime ==
    Elem("article", NoAttrs,
         <<TitleH2, ReadLink, Leaf("time", "datetime" :> "2024-01-01", "Jan 1"), SummaryP>>)

\* the same article with class="published" on its <time>
ArticleClassTime ==
    Elem("article", NoAttrs,
         <<TitleH2, ReadLink,
           Leaf("time", ("class" :> "published") @@ ("datetime" :> "2024-01-01"), "Jan 1"),
           SummaryP>>)

ScanElements ==
    { ArticlePlainTime,
      ArticleClassTime,
      Elem("article", NoAttrs,
           <<Leaf("h2", NoAttrs, "Eleven char"), ReadLink,
             Leaf("span", "class" :> "entry-date", "January 5, 2024")>>),
      Elem("article", NoAttrs,
           <<Leaf("h2", NoAttrs, "An older story title"),
             Leaf("time", ("class" :> "date") @@ ("datetime" :> "2023-06-01"), "")>>),
      Elem("article", NoAttrs, <<Leaf("p", NoAttrs, "Only a paragraph here.")>>),
      Elem("article", NoAttrs, <<Leaf("h2", NoAttrs, "Ten chars!"), ReadLink>>),
      Elem("div", "class" :> "post-card",
           <<Leaf("h3", "class" :> "post-title", "A post card headline"),
             Leaf("span", "class" :> "date", "Jan 5, 2024")>>),
      Elem("div", "class" :> "news-card", <<Leaf("a", "href" :> "/c", "A card headline here")>>),
      Elem("div", NoAttrs, <<Leaf("a", "href" :> "/p", "Plain block headline")>>),
      Leaf("div", NoAttrs, "Just a block of text"),
      Elem("section", NoAttrs, <<Leaf("span", NoAttrs, "x")>>) }

\* n copies of element e
RepElem(e, n) == [i \in 1..n |-> e]

ScanDocs ==
    { RepElem(e1, n1) \o RepElem(e2, n2) :
        e1 \in ScanElements, e2 \in ScanElements, n1 \in {0, 1, MaxRun}, n2 \in {0, 1} }

InitScan ==
    /\ pc = "select"
    /\ html \in ScanDocs
    /\ base_url = "https://site.test"
    /\ now \in Nows
    /\ days_back = DefaultDaysBack
    /\ cutoff_date = MinusDays(now, days_back)
    /\ post_elements = <<>> /\ strategy = 0 /\ k = 0
    /\ posts = <<>> /\ post = None /\ kept = <<>>
    /\ IdleRun /\ IdleDate

\* scraper.py:168-177
SelectElements ==
    /\ pc = "select"
    /\ post_elements' = PostElements(html).elements
    /\ strategy' = PostElements(html).strategy
    /\ k' = 1
    /\ pc' = "loop"
    /\ UNCHANGED <<now, days_back, cutoff_date, idx, response, results, trace, html,
                   base_url, posts, post, kept, date_text, parsed>>

\* one turn of the for loop of scraper.py:179-183
ProcessElement ==
    /\ pc = "loop"
    /\ k <= Len(post_elements)
    /\ post' = ExtractPostInfo(post_elements[k], base_url)
    /\ IF Keeps(post', cutoff_date)
       THEN posts' = Append(posts, post') /\ kept' = Append(kept, k)
       ELSE UNCHANGED <<posts, kept>>
    /\ k' = k + 1
    /\ UNCHANGED <<pc, now, days_back, cutoff_date, idx, response, results, trace, html,
                   base_url, post_elements, strategy, date_text, parsed>>

\* scraper.py:188, the loop being over
ParseReturn ==
    /\ pc = "loop"
    /\ k > Len(post_elements)
    /\ pc' = "returned"
    /\ UNCHANGED <<now, days_back, cutoff_date, idx, response, results, trace, html,
                   base_url, post_elements, strategy, k, posts, post, kept, date_text, parsed>>

\* scraper.py:185-188: an exception raised anywhere in the try block is logged and
\* the posts appended so far are returned
ParseException ==
    /\ pc \in {"select", "loop"}
    /\ pc' = "returned_after_exception"
    /\ UNCHANGED <<now, days_back, cutoff_date, idx, response, results, trace, html,
                   base_url, post_elements, strategy, k, posts, post, kept, date_text, parsed>>

NextScan == SelectElements \/ ProcessElement \/ ParseReturn \/ ParseException

SpecScan == InitScan /\ [][NextScan]_vars

\* the element handled by the last turn of the loop was appended to posts
LastKept == kept # <<>> /\ kept[Len(kept)] = k - 1

\* a >= b, on the (day, second, microsecond) triples
AtOrAfter(a, b) == ~(\/ a.ord < b.ord
                     \/ a.ord = b.ord /\ a.sec < b.sec
                     \/ a.ord = b.ord /\ a.sec = b.sec /\ a.us < b.us)

C4_PostCaps ==
    /\ strategy \in 1..Len(selectors) => Len(posts) <= 15 /\ Len(post_elements) <= 15
    /\ strategy = Len(selectors) + 1 => Len(posts) <= 10 /\ Len(post_elements) <= 10

\* sixteen articles match, fifteen posts are returned
C4_Witness ==
    /\ pc = "returned"
    /\ strategy = 1
    /\ Len(SelectSeq(html, LAMBDA n : n.name = "article")) > 15
    /\ Len(posts) = 15

\* sixteen blocks of text match the fallback, ten posts are returned
C4_WitnessFallback ==
    /\ pc = "returned"
    /\ strategy = Len(selectors) + 1
    /\ Len(SelectSeq(html, LAMBDA n : n.name = "div")) > 10
    /\ Len(posts) = 10

\* the listing of the scenario: one article, a title of more than 10 characters, and
\* for only date carrier a <time> with a datetime attribute
IsSingleArticleWithTime(doc, withClass) ==
    /\ Len(doc) = 1
    /\ doc[1].name = "article"
    /\ \E j \in DOMAIN doc[1].kids :
         /\ doc[1].kids[j].name = "time"
         /\ "datetime" \in DOMAIN doc[1].kids[j].attrs
         /\ ("class" \in DOMAIN doc[1].kids[j].attrs) = withClass
         /\ \A i \in DOMAIN doc[1].kids \ {j} : doc[1].kids[i].name \notin {"time", "span", "div"}
    /\ \E j \in DOMAIN doc[1].kids :
         doc[1].kids[j].name = "h2" /\ Len(doc[1].kids[j].text) > 10

\* the datetime attribute of the <time> of such a listing, as a date
TimeOfArticle(doc) ==
    LET j == CHOOSE i \in DOMAIN doc[1].kids : doc[1].kids[i].name = "time"
    IN  Strptime(doc[1].kids[j].attrs["datetime"], "%Y-%m-%d")

(* C6 as stated: for a listing whose single article has a title of more    *)
(* than 10 characters and whose only date carrier is a <time> with a       *)
(* datetime attribute D and no class attribute, the scan uses D: with a    *)
(* cutoff not after D it returns one post dated D, with a cutoff after D   *)
(* it returns no post.                                                     *)
C6_TimeWithoutClassUsed ==
    (pc = "returned" /\ IsSingleArticleWithTime(html, FALSE)) =>
        IF AtOrAfter(TimeOfArticle(html), cutoff_date)
        THEN Len(posts) = 1 /\ posts[1].date = TimeOfArticle(html)
        ELSE posts = <<>>

(* C6 amended: for such a listing the scan does not read the <time>: it    *)
(* returns one post with an unknown date whatever the cutoff, before or    *)
(* after D.  When the <time> also has a class attribute matching           *)
(* date|time|published, D is the post's date: one post dated D with a      *)
(* cutoff not after D, no post with a cutoff after D.                      *)
C6_TimeNeedsClass ==
    /\ (pc = "returned" /\ IsSingleArticleWithTime(html, FALSE)) =>
           /\ Len(posts) = 1
           /\ posts[1].date = None
           /\ posts[1].title = "Example Title Here"
    /\ (pc = "returned" /\ IsSingleArticleWithTime(html, TRUE)) =>
           IF AtOrAfter(TimeOfArticle(html), cutoff_date)
           THEN Len(posts) = 1 /\ posts[1].date = TimeOfArticle(html)
           ELSE posts = <<>>

\* the scenario's listing scanned with a cutoff after D: one post, date unknown
C6_Witness ==
    /\ pc = "returned"
    /\ html = <<ArticlePlainTime>>
    /\ ~AtOrAfter(Datetime(2024, 1, 1, 0, 0, 0, 0), cutoff_date)
    /\ Len(posts) = 1
    /\ posts[1].date = None

(* C7: no post returned by the scan has the title "No title found" or a    *)
(* title of 10 characters or fewer: a candidate without a title element is *)
(* dropped by the noise filter.                                            *)
C7_NoSentinelTitle ==
    \A j \in 1..Len(posts) :
        posts[j].title # "No title found" /\ Len(posts[j].title) > 10

\* the first n elements of a sequence
FirstN(seq, n) == SubSeq(seq, 1, IF Len(seq) < n THEN Len(seq) ELSE n)

(* C10: the candidates are the first 15 matches, in document order, of the *)
(* first strategy in priority order that matches anything; strategies are  *)
(* never merged and nothing after the winning one is consulted, even when  *)
(* all of its candidates are then filtered out; the fallback is used only  *)
(* when no structured strategy matches; the posts returned are those of a  *)
(* subsequence of the candidates, in document order.                       *)
C10_FirstStrategyWins ==
    strategy # 0 =>
        LET all      == AllElements(html)
            Hit(i, n) == SelectorMatches(selectors[i], n)
            matching == {i \in 1..Len(selectors) : \E j \in 1..Len(all) : Hit(i, all[j])}
            won      == SelectSeq(all, LAMBDA n : Hit(strategy, n))
            divs     == SelectSeq(all, LAMBDA n :
                            /\ n.name = "div"
                            /\ n.string # <<>>
                            /\ \E c \in 1..Len(n.string[1]) : SubSeq(n.string[1], c, c) # "\n")
            FromCandidate(j) == posts[j] = ExtractPostInfo(post_elements[kept[j]], base_url)
        IN  /\ IF matching # {}
               THEN /\ strategy = MinOf(matching)
                    /\ post_elements = FirstN(won, 15)
               ELSE /\ strategy = Len(selectors) + 1
                    /\ post_elements = FirstN(divs, 10)
            /\ Len(kept) = Len(posts)
            /\ \A j \in 1..Len(kept) :
                   /\ kept[j] \in 1..Len(post_elements)
                   /\ j > 1 => kept[j - 1] < kept[j]
            /\ kept # <<>> => FromCandidate(Len(kept))
            /\ pc = "returned" => \A j \in 1..Len(kept) : FromCandidate(j)

\* the articles won, all of them were filtered out, and a later strategy would have
\* matched
C10_Witness ==
    /\ pc = "returned"
    /\ strategy = 1
    /\ post_elements # <<>>
    /\ posts = <<>>
    /\ \E n \in 1..Len(html) : ClassContains(html[n], "post")

----------------------------------------------------------------------------
(* scrape_all_companies *)

NumSites == 3

\* self.companies, in insertion order (scraper.py:38-63)
ConfiguredCompanies ==
    << [name |-> "TechCrunch AI", url |-> "https://techcrunch.com/category/artificial-intelligence/"],
       [name |-> "VentureBeat AI", url |-> "https://venturebeat.com/ai/"],
       [name |-> "The Verge AI", url |-> "https://www.theverge.com/ai-artificial-intelligence"],
       [name |-> "Ars Technica", url |-> "https://arstechnica.com/tag/artificial-intelligence/"],
       [name |-> "MIT Technology Review",
        url |-> "https://www.technologyreview.com/topic/artificial-intelligence/"],
       [name |-> "AI News", url |-> "https://www.artificialintelligence-news.com/"] >>

\* the sites of a run: the first NumSites of the configured ones
companies == SubSeq(ConfiguredCompanies, 1, Min(NumSites, Len(ConfiguredCompanies)))

\* the exceptions _make_request turns into None (scraper.py:137-148)
FetchFailures == {"Timeout", "ConnectionError", "HTTPError", "Exception"}

\* the documents a site may serve
RunDocs ==
    { <<ArticleClassTime,
        Elem("article", NoAttrs,
             <<Leaf("h2", NoAttrs, "Eleven char"), ReadLink,
               Leaf("span", "class" :> "entry-date", "January 5, 2024")>>)>>,
      <<Elem("div", "class" :> "news-card", <<Leaf("a", "href" :> "/c", "A card headline here")>>)>> }

\* where the parser may raise: nowhere, or on reaching its first candidate
RunFaults == {<<>>, <<1>>}

RunNows == {Datetime(2024, 1, 8, 12, 30, 0, 250000), Datetime(2024, 1, 6, 9, 0, 0, 1)}

Init ==
    /\ pc = "request"
    /\ now \in RunNows
    /\ days_back = DefaultDaysBack
    /\ cutoff_date = MinusDays(now, days_back)
    /\ idx = 1
    /\ response = None
    /\ results = <<>>
    /\ trace = <<>>
    /\ posts = <<>>
    /\ base_url = "" /\ post = None
    /\ html = <<>> /\ post_elements = <<>> /\ strategy = 0 /\ k = 0 /\ kept = <<>>
    /\ IdleDate

\* _make_request for the site the loop is at: one session.get, then
\* raise_for_status; any exception gives None
MakeRequest ==
    /\ pc = "request"
    /\ idx <= Len(companies)
    /\ \E outcome \in FetchFailures \cup {"ok"}, doc \in RunDocs :
          LET got == IF outcome = "ok" THEN [content |-> doc] ELSE None
          IN  /\ response' = got
              /\ trace' = Append(trace, [ev |-> "GET", site |-> idx, url |-> companies[idx].url,
                                         outcome |-> outcome, response |-> got])
    /\ pc' = "scrape"
    /\ UNCHANGED <<now, days_back, cutoff_date, idx, results, html, base_url, post_elements,
                   strategy, k, posts, post, kept, date_text, parsed>>

\* a site whose fetch failed gets no entry
ScrapeCompanyBlogDropsFailed ==
    /\ pc = "scrape"
    /\ \E fault \in RunFaults :
          LET found == IF response = None THEN <<>>
                       ELSE ParseGenericBlog(response.content, companies[idx].url,
                                             cutoff_date, fault)
          IN  /\ posts' = found
              /\ results' = IF response = None THEN results
                            ELSE (companies[idx].name :> found) @@ results
              /\ trace' = IF response = None THEN trace
                          ELSE Append(trace, [ev |-> "parse", site |-> idx, fault |-> fault])
    /\ pc' = "sleep"
    /\ UNCHANGED <<now, days_back, cutoff_date, idx, response, html, base_url, post_elements,
                   strategy, k, post, kept, date_text, parsed>>

\* the rest of _scrape_company_blog and scraper.py:86: no response gives [],
\* otherwise the parser's posts; the list is stored under the company's name.
\* (_scrape_company_blog catches every Exception, so the handler of scraper.py:88-90
\* is never entered.)
ScrapeCompanyBlog ==
    /\ pc = "scrape"
    /\ \E fault \in RunFaults :
          LET found == IF response = None THEN <<>>
                       ELSE ParseGenericBlog(response.content, companies[idx].url,
                                             cutoff_date, fault)
          IN  /\ posts' = found
              /\ results' = (companies[idx].name :> found) @@ results
              /\ trace' = IF response = None THEN trace
                          ELSE Append(trace, [ev |-> "parse", site |-> idx, fault |-> fault])
    /\ pc' = "sleep"
    /\ UNCHANGED <<now, days_back, cutoff_date, idx, response, html, base_url, post_elements,
                   strategy, k, post, kept, date_text, parsed>>

\* the sleep skipped after a failed fetch
SleepOnlyAfterSuccess ==
    /\ pc = "sleep"
    /\ trace' = IF response = None THEN trace
                ELSE Append(trace, [ev |-> "sleep", site |-> idx, secs |-> RateLimitDelay])
    /\ idx' = idx + 1
    /\ pc' = "request"
    /\ UNCHANGED <<now, days_back, cutoff_date, response, results, html, base_url,
                   post_elements, strategy, k, posts, post, kept, date_text, parsed>>

\* scraper.py:93, then the next turn of the loop
Sleep ==
    /\ pc = "sleep"
    /\ trace' = Append(trace, [ev |-> "sleep", site |-> idx, secs |-> RateLimitDelay])
    /\ idx' = idx + 1
    /\ pc' = "request"
    /\ UNCHANGED <<now, days_back, cutoff_date, response, results, html, base_url,
                   post_elements, strategy, k, posts, post, kept, date_text, parsed>>

\* scraper.py:95
Return ==
    /\ pc = "request"
    /\ idx > Len(companies)
    /\ pc' = "done"
    /\ UNCHANGED <<now, days_back, cutoff_date, idx, response, results, trace, html, base_url,
                   post_elements, strategy, k, posts, post, kept, date_text, parsed>>

Next == MakeRequest \/ ScrapeCompanyBlog \/ Sleep \/ Return

Spec == Init /\ [][Next]_vars

\* the events of one kind, in order
Events(kind) == SelectSeq(trace, LAMBDA e : e.ev = kind)

\* the GETs and sleeps, in order
Requests == SelectSeq(trace, LAMBDA e : e.ev \in {"GET", "sleep"})

\* how far the run has come: three steps per site (GET, scrape, sleep), then the
\* return
Progress ==
    3 * (idx - 1) + (CASE pc = "request" -> 0 [] pc = "scrape" -> 1 [] pc = "sleep" -> 2
                       [] pc = "done" -> 1)

\* before the return some step of the run can always be taken
CanStep ==
    \/ pc = "request" /\ idx \in 1..(NumSites + 1)
    \/ pc \in {"scrape", "sleep"} /\ idx \in 1..NumSites

\* the mapping built so far has one key per site handled, a site whose fetch failed
\* maps to the empty list, and at the end every other site maps to the posts of its
\* own scan
ResultsMatchOutcomes ==
    LET gets   == Events("GET")
        parses == Events("parse")
        FaultOf(i) == (CHOOSE e \in {parses[j] : j \in 1..Len(parses)} : e.site = i).fault
        Stored == IF pc = "scrape" THEN Len(gets) - 1 ELSE Len(gets)
    IN  /\ DOMAIN results = {companies[i].name : i \in 1..Stored}
        /\ Cardinality(DOMAIN results) = Stored
        /\ \A i \in 1..Stored :
               gets[i].outcome \in FetchFailures => results[companies[i].name] = <<>>
        /\ pc = "done" =>
               /\ Stored = NumSites
               /\ \A i \in 1..NumSites :
                      gets[i].outcome = "ok" =>
                          results[companies[i].name] =
                              ParseGenericBlog(gets[i].response.content, companies[i].url,
                                               cutoff_date, FaultOf(i))

(* C1: whatever the outcome at each site (timeout, connection failure,     *)
(* HTTP status error, other fetch error, parse exception, success), the    *)
(* run comes to its end (no step blocks, and each step brings the return   *)
(* nearer) and returns a mapping with exactly one key per configured site; *)
(* a site whose fetch failed maps to the empty list and every other site   *)
(* maps to the posts of its own scan; an entry, once stored, is not        *)
(* changed by what happens at another site.                                *)
C1_OneEntryPerSite ==
    /\ [](ResultsMatchOutcomes /\ (pc # "done" => CanStep) /\ Progress <= 3 * NumSites + 1)
    /\ [][/\ Progress' > Progress
          /\ \A name \in DOMAIN results :
                name \in DOMAIN results' /\ results'[name] = results[name]]_vars

\* a run has ended in which one site timed out, the parser raised at another and a
\* third gave posts
C1_Witness ==
    /\ pc = "done"
    /\ \E i, j, m \in 1..NumSites :
          /\ Events("GET")[i].outcome = "Timeout"
          /\ results[companies[i].name] = <<>>
          /\ Events("GET")[j].outcome = "ok"
          /\ [ev |-> "parse", site |-> j, fault |-> <<1>>] \in {trace[n] : n \in 1..Len(trace)}
          /\ Events("GET")[m].outcome = "ok"
          /\ results[companies[m].name] # <<>>

(* C3: the sites are handled one at a time in configuration order, with    *)
(* exactly one GET per site and no retry; after each site, failed or not,  *)
(* a sleep is taken before the next GET: no two GETs without a sleep       *)
(* between them.                                                           *)
C3_OneGetThenSleep ==
    LET gets == Events("GET")
        reqs == Requests
    IN  /\ \A i \in 1..Len(gets) : gets[i].site = i /\ gets[i].url = ConfiguredCompanies[i].url
        /\ \A i \in 1..Len(reqs) :
               reqs[i].ev = (IF i % 2 = 1 THEN "GET" ELSE "sleep")
        /\ \A i \in 1..Len(reqs) : i % 2 = 0 => reqs[i].site = reqs[i - 1].site
        /\ pc = "done" => Len(gets) = NumSites /\ Len(reqs) = 2 * NumSites

\* a GET that timed out was followed by a sleep and then by the next site's GET
C3_Witness ==
    \E i \in 1..Len(Requests) :
        /\ i + 2 <= Len(Requests)
        /\ Requests[i].ev = "GET" /\ Requests[i].outcome = "Timeout"
        /\ Requests[i + 1].ev = "sleep"
        /\ Requests[i + 2].ev = "GET" /\ Requests[i + 2].site = Requests[i].site + 1

====
